---- MODULE Spec2Model ----
(***************************************************************************)
(* A model of pyrate/algorithm.py: the reference pixel search (ref_pixel,  *)
(* check_ref_pixel_params, _step) and the per-pixel minimum spanning tree  *)
(* selection (mst_matrix, _remove_root_node).                              *)
(*                                                                         *)
(* Numbers: ref_min_frac is held in halves (min_frac2 = 2 * min_frac), and *)
(* standard deviations are held in hundredths, rounded down.               *)
(***************************************************************************)
EXTENDS Integers, Sequences, FiniteSets, TLC

VARIABLES
    \* ---- ref_pixel ----
    WIDTH,          \* head.WIDTH
    FILE_LENGTH,    \* head.FILE_LENGTH
    params,         \* the configuration mapping (None = key absent)
    phase_stack,    \* phase_stack[i][y][x], NaN for a missing cell
    pc,             \* "start", "scan", "done" ("off" when ref_pixel is not run)
    ys, xs,         \* the candidate centres _step yields for each axis
    iy, ix,         \* position of the double loop of lines 83-84
    min_sd,         \* lowest mean standard deviation so far, Inf at first
    refy, refx,     \* the local variables refy, refx of ref_pixel
    error,          \* the exception raised, "none" when none
    examined,       \* number of candidate windows examined so far
    \* ---- mst_matrix ----
    edges,          \* edges[i] = ifgs[i].DATE12, a pair of epochs
    weights,        \* weights[i] = ifgs[i].nan_fraction, in tenths
    g,              \* the shared graph: its edges, each with its weight
    default_mst,    \* the cached tree of the graph holding every edge
    mpc,            \* "setup", "loop" ("off" when mst_matrix is not run)
    values,         \* values[i]: the current pixel of ifg i is NaN
    branch,         \* how the last step ended: "setup", "default", "nan", "mst"
    raw,            \* what minimal_spanning_tree returned in the last step
    mst_result,     \* what was assigned to mst_result[y, x] for the last pixel
    calls,          \* minimal_spanning_tree calls made in the last step
    inserted,       \* add_edge calls made in the last step
    \* ---- the per-pixel step of mst_matrix run by two workers ----
    mode,           \* "interleaved", "atomic", "clones" ("off" otherwise)
    graphs,         \* the graph instances: one shared, or one per worker
    wvalues,        \* wvalues[w]: the pixel w has toggled the edges for, or None
    lastRead        \* whose mask the graph held at the last MST read

refVars == <<WIDTH, FILE_LENGTH, params, phase_stack, pc, ys, xs, iy, ix,
             min_sd, refy, refx, error, examined>>

mstVars == <<edges, weights, g, default_mst, mpc, values, branch, raw,
             mst_result, calls, inserted>>

workerVars == <<mode, graphs, wvalues, lastRead>>

vars == <<refVars, mstVars, workerVars>>

\* Python's None, a missing cell and float("inf"): the empty tuple; a present
\* value v is held as <<v>>
None == <<>>
NaN == <<>>
Inf == <<>>
Val(v) == v[1]

\* ------------------------------------------------------------------ bounds
MaxWidth == 5
MaxHeight == 3
MaxPat == 3
MaxEpochs == 3
MaxIfgs == 3

\* ------------------------------------------------------------- ref_pixel
Ifgs == {1, 2}

\* ifg data: the cells fewer than nanDiag steps from the top left corner are
\* missing, the cells after them up to noiseDiag steps alternate between 1 and
\* 0, the rest are 0; with flip the steps count from the bottom right corner
PhaseData(p, flip, h, w) ==
    [y \in 0..(h - 1) |-> [x \in 0..(w - 1) |->
        LET d == IF flip THEN (w - 1 - x) + (h - 1 - y) ELSE x + y
        IN IF d < p.nanDiag THEN NaN
           ELSE IF d < p.noiseDiag THEN <<d % 2>>
           ELSE <<0>>]]

Patterns == [nanDiag : 0..MaxPat, noiseDiag : 0..MaxPat]

\* xrange(start, stop, step) for step > 0
RECURSIVE XRange(_, _, _)
XRange(start, stop, step) ==
    IF start >= stop THEN <<>>
    ELSE <<start>> \o XRange(start + step, stop, step)

StepGeneral(dim, ref, radius) ==
    LET max_dim == dim - (2 * radius)
        step == max_dim \div (ref - 1)
    IN XRange(radius, dim, step)

_step(dim, ref, radius) ==
    IF ref = 1 THEN XRange(dim \div 2, dim, dim)
    ELSE IF ref = 2 THEN <<radius, dim - radius - 1>>
    ELSE StepGeneral(dim, ref, radius)

\* check_ref_pixel_params with the minimum fraction looked at before the chip size
check_min_frac_first(p, width, length) ==
    LET chipsize == Val(p.ref_chip_size)
        min_frac2 == Val(p.ref_min_frac2)
        refnx == Val(p.refnx)
        refny == Val(p.refny)
    IN  IF p.ref_min_frac2 = None THEN "ConfigException:ref_min_frac"
        ELSE IF min_frac2 < 0 \/ min_frac2 > 2 THEN "ValueError"
        ELSE IF p.ref_chip_size = None THEN "ConfigException:ref_chip_size"
        ELSE IF chipsize < 3 \/ chipsize > width \/ chipsize % 2 = 0
            THEN "ValueError"
        ELSE IF p.refnx = None THEN "ConfigException:refnx"
        ELSE IF refnx < 1 \/ refnx > width - (chipsize - 1) THEN "ValueError"
        ELSE IF p.refny = None THEN "ConfigException:refny"
        ELSE IF refny < 1 \/ refny > length - (chipsize - 1) THEN "ValueError"
        ELSE "none"

\* check_ref_pixel_params: the exception it raises, "none" when it returns
check_ref_pixel_params(p, width, length) ==
    LET chipsize == Val(p.ref_chip_size)
        min_frac2 == Val(p.ref_min_frac2)
        refnx == Val(p.refnx)
        refny == Val(p.refny)
    IN  IF p.ref_chip_size = None THEN "ConfigException:ref_chip_size"
        ELSE IF chipsize < 3 \/ chipsize > width \/ chipsize % 2 = 0
            THEN "ValueError"
        ELSE IF p.ref_min_frac2 = None THEN "ConfigException:ref_min_frac"
        ELSE IF min_frac2 < 0 \/ min_frac2 > 2 THEN "ValueError"
        ELSE IF p.refnx = None THEN "ConfigException:refnx"
        ELSE IF refnx < 1 \/ refnx > width - (chipsize - 1) THEN "ValueError"
        ELSE IF p.refny = None THEN "ConfigException:refny"
        ELSE IF refny < 1 \/ refny > length - (chipsize - 1) THEN "ValueError"
        ELSE "none"

\* the sanity check of a pinned reference pixel, lines 63-68
PinnedError(p, width, length) ==
    IF p.refx < 1 \/ p.refx > width - 1 THEN "ValueError"
    ELSE IF p.refy < 1 \/ p.refy > length - 1 THEN "ValueError"
    ELSE "none"

Radius(chipsize) == chipsize \div 2

\* the cells of data[i] = phase_stack[i, y-radius:y+radius+1, x-radius:x+radius+1];
\* a slice is cut at the array's end (its start is never negative here)
Window(y, x, radius) ==
    {c \in (0..(FILE_LENGTH - 1)) \X (0..(WIDTH - 1)) :
        /\ y - radius <= c[1] /\ c[1] < y + radius + 1
        /\ x - radius <= c[2] /\ c[2] < x + radius + 1}

NotNan(i, y, x, radius) ==
    {c \in Window(y, x, radius) : phase_stack[i][c[1]][c[2]] # NaN}

RECURSIVE SumOver(_, _, _)
SumOver(i, cells, sq) ==
    IF cells = {} THEN 0
    ELSE LET c == CHOOSE d \in cells : TRUE
             v == Val(phase_stack[i][c[1]][c[2]])
         IN (IF sq THEN v * v ELSE v) + SumOver(i, cells \ {c}, sq)

ISqrt(m) == CHOOSE r \in 0..m : r * r <= m /\ m < (r + 1) * (r + 1)

\* std(i[~isnan(i)]) in hundredths
Std(i, y, x, radius) ==
    LET cells == NotNan(i, y, x, radius)
        n == Cardinality(cells)
        s == SumOver(i, cells, FALSE)
        q == SumOver(i, cells, TRUE)
    IN ISqrt(10000 * (n * q - s * s)) \div n

\* nsum(~isnan(i)) > thresh, thresh = min_frac * chipsize * chipsize
ValidIn(i, y, x, p) ==
    2 * Cardinality(NotNan(i, y, x, Radius(Val(p.ref_chip_size))))
        > Val(p.ref_min_frac2) * Val(p.ref_chip_size) * Val(p.ref_chip_size)

\* any(valid) in place of all(valid)
AnyValid(y, x, p) == \E i \in Ifgs : ValidIn(i, y, x, p)

\* all(valid)
AllValid(y, x, p) == \A i \in Ifgs : ValidIn(i, y, x, p)

RECURSIVE SumStd(_, _, _, _)
SumStd(is, y, x, radius) ==
    IF is = {} THEN 0
    ELSE LET i == CHOOSE j \in is : TRUE
         IN Std(i, y, x, radius) + SumStd(is \ {i}, y, x, radius)

\* mean(sd)
MeanSd(y, x, p) ==
    SumStd(Ifgs, y, x, Radius(Val(p.ref_chip_size))) \div Cardinality(Ifgs)

\* mean_sd <= min_sd in place of mean_sd < min_sd
ImprovesOrTies(mean_sd, best) == best = Inf \/ mean_sd <= Val(best)

\* mean_sd < min_sd
Improves(mean_sd, best) == best = Inf \/ mean_sd < Val(best)

Pinned(p) == p.refx # 0 \/ p.refy # 0

\* the configurations: a pinned pixel comes without search parameters
SearchParams ==
    [refx : {0}, refy : {0},
     ref_chip_size : {None} \cup {<<v>> : v \in 2..(MaxWidth + 1)},
     ref_min_frac2 : {None} \cup {<<v>> : v \in (-1)..3},
     refnx : {None} \cup {<<v>> : v \in 0..(MaxWidth - 1)},
     refny : {None} \cup {<<v>> : v \in 0..(MaxHeight - 1)}]

PinnedParams ==
    [refx : 0..(MaxWidth + 1), refy : 0..(MaxHeight + 1),
     ref_chip_size : {None}, ref_min_frac2 : {None},
     refnx : {None}, refny : {None}]

\* ------------------------------------------------------------ mst_matrix
Epochs == 1..MaxEpochs
Pairs == {e \in Epochs \X Epochs : e[1] < e[2]}

\* the nodes of an edge list: epochs.dates, every date some ifg refers to
Nodes(es) == {es[i][1] : i \in DOMAIN es} \cup {es[i][2] : i \in DOMAIN es}

\* graph.has_edge, graph.add_edge(edge, wt=weight), graph.del_edge
has_edge(gr, edge) == edge \in DOMAIN gr
add_edge(gr, edge, wt) ==
    [e \in DOMAIN gr \cup {edge} |-> IF e = edge THEN wt ELSE gr[e]]
del_edge(gr, edge) == [e \in DOMAIN gr \ {edge} |-> gr[e]]

Joins(edge, u, v) == edge = <<u, v>> \/ edge = <<v, u>>

\* _lightest_edge(graph, visited): the lightest edge from a visited node to an
\* unvisited one, the first such in the order of the scan (visited nodes in the
\* order they were visited, neighbours in date order); <<>> when there is none
lightest_edge(nodes, gr, visited) ==
    LET crossing == {c \in (1..Len(visited)) \X nodes :
                        /\ \A k \in 1..Len(visited) : visited[k] # c[2]
                        /\ \E e \in DOMAIN gr : Joins(e, visited[c[1]], c[2])}
        wt(c) == gr[CHOOSE e \in DOMAIN gr : Joins(e, visited[c[1]], c[2])]
        before(c, d) == c[1] < d[1] \/ (c[1] = d[1] /\ c[2] <= d[2])
    IN  IF crossing = {} THEN <<>>
        ELSE LET m == CHOOSE c \in crossing : \A d \in crossing :
                          wt(c) < wt(d) \/ (wt(c) = wt(d) /\ before(c, d))
             IN <<visited[m[1]], m[2]>>

\* minimal_spanning_tree(graph): Prim's algorithm from the first unvisited node,
\* started again from a new root while nodes are left unvisited; an entry is
\* node -> <<parent>>, a root's is node -> None
RECURSIVE Prim(_, _, _, _)
Prim(nodes, gr, visited, spanning_tree) ==
    LET ledge == lightest_edge(nodes, gr, visited)
        unvisited == {n \in nodes : \A k \in 1..Len(visited) : visited[k] # n}
    IN  IF ledge # <<>>
        THEN Prim(nodes, gr, Append(visited, ledge[2]),
                  spanning_tree @@ (ledge[2] :> <<ledge[1]>>))
        ELSE IF unvisited # {}
        THEN LET nroot == CHOOSE n \in unvisited : \A m \in unvisited : n <= m
             IN Prim(nodes, gr, Append(visited, nroot),
                     spanning_tree @@ (nroot :> None))
        ELSE spanning_tree

minimal_spanning_tree(nodes, gr) == Prim(nodes, gr, <<>>, <<>>)

\* _remove_root_node that deletes one entry without a parent only
RemoveOneRoot(mst) ==
    LET roots == {k \in DOMAIN mst : mst[k] = None}
        first == CHOOSE k \in roots : \A j \in roots : k <= j
    IN [k \in DOMAIN mst \ {first} |-> mst[k]]

\* _remove_root_node: every entry whose value is None is deleted
_remove_root_node(mst) ==
    [k \in {j \in DOMAIN mst : mst[j] # None} |-> mst[k]]

\* the loop of lines 203-209 that only ever inserts edges
RECURSIVE ToggleNoDelete(_, _, _)
ToggleNoDelete(gr, vals, i) ==
    IF i > Len(edges) THEN gr
    ELSE IF ~vals[i] /\ ~has_edge(gr, edges[i])
        THEN ToggleNoDelete(add_edge(gr, edges[i], weights[i]), vals, i + 1)
    ELSE ToggleNoDelete(gr, vals, i + 1)

\* the loop of lines 203-209 that only ever removes edges
RECURSIVE ToggleNoInsert(_, _, _)
ToggleNoInsert(gr, vals, i) ==
    IF i > Len(edges) THEN gr
    ELSE IF vals[i] /\ has_edge(gr, edges[i])
        THEN ToggleNoInsert(del_edge(gr, edges[i]), vals, i + 1)
    ELSE ToggleNoInsert(gr, vals, i + 1)

\* lines 203-209, from ifg i on: the graph after the loop
RECURSIVE Toggle(_, _, _)
Toggle(gr, vals, i) ==
    IF i > Len(edges) THEN gr
    ELSE IF ~vals[i]
        THEN IF ~has_edge(gr, edges[i])
             THEN Toggle(add_edge(gr, edges[i], weights[i]), vals, i + 1)
             ELSE Toggle(gr, vals, i + 1)
    ELSE IF has_edge(gr, edges[i])
             THEN Toggle(del_edge(gr, edges[i]), vals, i + 1)
             ELSE Toggle(gr, vals, i + 1)

\* nc = sum(isnan(values))
NanCount(vals) == Cardinality({i \in DOMAIN vals : vals[i]})

\* lines 175-178: the graph holding every edge
RECURSIVE FullGraph(_)
FullGraph(i) ==
    IF i = 0 THEN <<>> ELSE add_edge(FullGraph(i - 1), edges[i], weights[i])

\* the ifg lists: distinct edges in date order, each with its nan_fraction
RECURSIVE Sorted(_)
Sorted(es) ==
    IF es = {} THEN <<>>
    ELSE LET m == CHOOSE e \in es : \A f \in es :
                     e[1] < f[1] \/ (e[1] = f[1] /\ e[2] <= f[2])
         IN <<m>> \o Sorted(es \ {m})

\* the epochs are numbered in date order: the nodes are 1..n for some n
EdgeLists ==
    {Sorted(es) : es \in {s \in SUBSET Pairs :
        /\ Cardinality(s) \in 1..MaxIfgs
        /\ \E n \in Epochs : \A k \in Epochs :
              (k <= n) <=> (\E e \in s : e[1] = k \/ e[2] = k)}}

\* nan_fraction in tenths
NanFractions == {1, 2, 3}

MstInit ==
    /\ edges \in EdgeLists
    /\ weights \in [1..Len(edges) -> NanFractions]
    /\ g = <<>> /\ default_mst = <<>>
    /\ mpc = "setup" /\ values = <<>> /\ branch = "none"
    /\ raw = <<>> /\ mst_result = <<>> /\ calls = 0 /\ inserted = 0
    \* ref_pixel is not run
    /\ WIDTH = 0 /\ FILE_LENGTH = 0 /\ params = <<>> /\ phase_stack = <<>>
    /\ pc = "off" /\ ys = <<>> /\ xs = <<>> /\ iy = 1 /\ ix = 1
    /\ min_sd = Inf /\ refy = 0 /\ refx = 0 /\ error = "none" /\ examined = 0
    \* no workers
    /\ mode = "off" /\ graphs = <<>> /\ wvalues = <<>> /\ lastRead = "none"

\* lines 171-187: the graph of every edge and the default tree
Setup ==
    /\ mpc = "setup"
    /\ g' = FullGraph(Len(edges))
    /\ raw' = minimal_spanning_tree(Nodes(edges), g')
    /\ default_mst' = _remove_root_node(raw')
    /\ mpc' = "loop"
    /\ branch' = "setup"
    /\ calls' = 1 /\ inserted' = Len(edges)
    /\ UNCHANGED <<edges, weights, values, mst_result>>
    /\ UNCHANGED <<refVars, workerVars>>

\* a pixel where no ifg is missing sent through the general path of lines 203-213
PixelDefaultRecompute ==
    /\ mpc = "loop"
    /\ \E vals \in [1..Len(edges) -> BOOLEAN] :
          /\ NanCount(vals) = 0
          /\ values' = vals
          /\ g' = Toggle(g, vals, 1)
          /\ inserted' = Cardinality(DOMAIN Toggle(g, vals, 1) \ DOMAIN g)
    /\ raw' = minimal_spanning_tree(Nodes(edges), g')
    /\ mst_result' = _remove_root_node(raw')
    /\ branch' = "default"
    /\ calls' = 1
    /\ UNCHANGED <<edges, weights, default_mst, mpc>>
    /\ UNCHANGED <<refVars, workerVars>>

\* lines 190-197: a pixel where no ifg is missing
PixelDefault ==
    /\ mpc = "loop"
    /\ \E vals \in [1..Len(edges) -> BOOLEAN] :
          /\ NanCount(vals) = 0
          /\ values' = vals
    /\ mst_result' = default_mst
    /\ branch' = "default"
    /\ raw' = <<>> /\ calls' = 0 /\ inserted' = 0
    /\ UNCHANGED <<edges, weights, g, default_mst, mpc>>
    /\ UNCHANGED <<refVars, workerVars>>

\* lines 190-200: a pixel where every ifg is missing
PixelAllNan ==
    /\ mpc = "loop"
    /\ \E vals \in [1..Len(edges) -> BOOLEAN] :
          /\ NanCount(vals) = Len(edges)
          /\ values' = vals
    /\ mst_result' = NaN
    /\ branch' = "nan"
    /\ raw' = <<>> /\ calls' = 0 /\ inserted' = 0
    /\ UNCHANGED <<edges, weights, g, default_mst, mpc>>
    /\ UNCHANGED <<refVars, workerVars>>

\* lines 190-213: a pixel where some, not all, ifgs are missing
PixelPartial ==
    /\ mpc = "loop"
    /\ \E vals \in [1..Len(edges) -> BOOLEAN] :
          /\ NanCount(vals) # 0 /\ NanCount(vals) # Len(edges)
          /\ values' = vals
          /\ g' = Toggle(g, vals, 1)
          /\ inserted' = Cardinality(DOMAIN Toggle(g, vals, 1) \ DOMAIN g)
    /\ raw' = minimal_spanning_tree(Nodes(edges), g')
    /\ mst_result' = _remove_root_node(raw')
    /\ branch' = "mst"
    /\ calls' = 1
    /\ UNCHANGED <<edges, weights, default_mst, mpc>>
    /\ UNCHANGED <<refVars, workerVars>>

MstNext == Setup \/ PixelDefault \/ PixelAllNan \/ PixelPartial

SpecMst == MstInit /\ [][MstNext]_vars

RefInit ==
    /\ WIDTH \in 3..MaxWidth
    /\ FILE_LENGTH \in 3..MaxHeight
    /\ params \in SearchParams \cup PinnedParams
    /\ phase_stack = <<>>
    /\ pc = "start"
    /\ ys = <<>> /\ xs = <<>>
    /\ iy = 1 /\ ix = 1
    /\ min_sd = Inf
    /\ refy = 0 /\ refx = 0
    /\ error = "none"
    /\ examined = 0
    \* mst_matrix is not run
    /\ edges = <<>> /\ weights = <<>> /\ g = <<>> /\ default_mst = <<>>
    /\ mpc = "off" /\ values = <<>> /\ branch = "none"
    /\ raw = <<>> /\ mst_result = <<>> /\ calls = 0 /\ inserted = 0
    \* no workers
    /\ mode = "off" /\ graphs = <<>> /\ wvalues = <<>> /\ lastRead = "none"

\* lines 58-68: a pinned reference pixel is checked and returned
ReturnPinned ==
    /\ pc = "start"
    /\ Pinned(params)
    /\ error' = PinnedError(params, WIDTH, FILE_LENGTH)
    /\ refy' = params.refy /\ refx' = params.refx
    /\ pc' = "done"
    /\ UNCHANGED <<WIDTH, FILE_LENGTH, params, phase_stack, ys, xs, iy, ix,
                   min_sd, examined>>
    /\ UNCHANGED <<mstVars, workerVars>>

\* line 70: check_ref_pixel_params raises
RejectParams ==
    /\ pc = "start"
    /\ ~Pinned(params)
    /\ check_ref_pixel_params(params, WIDTH, FILE_LENGTH) # "none"
    /\ error' = check_ref_pixel_params(params, WIDTH, FILE_LENGTH)
    /\ pc' = "done"
    /\ UNCHANGED <<WIDTH, FILE_LENGTH, params, phase_stack, ys, xs, iy, ix,
                   min_sd, refy, refx, examined>>
    /\ UNCHANGED <<mstVars, workerVars>>

\* lines 70-84: the parameters pass, the stack is read and the loops are set up
StartScan ==
    /\ pc = "start"
    /\ ~Pinned(params)
    /\ check_ref_pixel_params(params, WIDTH, FILE_LENGTH) = "none"
    /\ \E pat \in [Ifgs -> Patterns] :
          \* the first ifg loses its top left corner, the second its
          \* bottom right corner
          phase_stack' = [i \in Ifgs |->
                             PhaseData(pat[i], i = 2, FILE_LENGTH, WIDTH)]
    /\ ys' = _step(FILE_LENGTH, Val(params.refny),
                    Radius(Val(params.ref_chip_size)))
    /\ xs' = _step(WIDTH, Val(params.refnx), Radius(Val(params.ref_chip_size)))
    /\ iy' = 1 /\ ix' = 1
    /\ pc' = "scan"
    /\ UNCHANGED <<WIDTH, FILE_LENGTH, params, min_sd, refy, refx, error,
                   examined>>
    /\ UNCHANGED <<mstVars, workerVars>>

\* lines 85-93: one candidate window
ScanStep ==
    /\ pc = "scan"
    /\ iy <= Len(ys)
    /\ LET y == ys[iy]
           x == xs[ix]
           better == /\ AllValid(y, x, params)
                     /\ Improves(MeanSd(y, x, params), min_sd)
       IN /\ min_sd' = IF better THEN <<MeanSd(y, x, params)>> ELSE min_sd
          /\ refy' = IF better THEN y ELSE refy
          /\ refx' = IF better THEN x ELSE refx
    /\ examined' = examined + 1
    /\ IF ix < Len(xs) THEN ix' = ix + 1 /\ iy' = iy
       ELSE ix' = 1 /\ iy' = iy + 1
    /\ UNCHANGED <<WIDTH, FILE_LENGTH, params, phase_stack, pc, ys, xs, error>>
    /\ UNCHANGED <<mstVars, workerVars>>

\* lines 95-97
Finish ==
    /\ pc = "scan"
    /\ iy > Len(ys)
    /\ error' = IF <<refy, refx>> = <<0, 0>> THEN "RefPixelError" ELSE "none"
    /\ pc' = "done"
    /\ UNCHANGED <<WIDTH, FILE_LENGTH, params, phase_stack, ys, xs, iy, ix,
                   min_sd, refy, refx, examined>>
    /\ UNCHANGED <<mstVars, workerVars>>

RefNext == ReturnPinned \/ RejectParams \/ StartScan \/ ScanStep \/ Finish

SpecRef == RefInit /\ [][RefNext]_vars

\* ------------------------------------------------- claims on ref_pixel
\* the candidates as index pairs (position in ys, position in xs)
Candidates == (1..Len(ys)) \X (1..Len(xs))
ScanIndex(c) == (c[1] - 1) * Len(xs) + c[2]
CandY(c) == ys[c[1]]
CandX(c) == xs[c[2]]
Chip == Val(params.ref_chip_size)

\* the non-missing count of the window exceeds chipsize * chipsize * min_frac
\* in every interferogram
ValidInEvery(c) ==
    \A i \in Ifgs :
        2 * Cardinality(NotNan(i, CandY(c), CandX(c), Chip \div 2))
            > Val(params.ref_min_frac2) * Chip * Chip

ValidCands == {c \in Candidates : ValidInEvery(c)}
Score(c) == MeanSd(CandY(c), CandX(c), params)

Searched == pc = "done" /\ ~Pinned(params) /\ phase_stack # <<>>

EvenlySpaced(dim, ref, radius) ==
    [k \in 1..ref |-> radius + (k - 1) * ((dim - 2 * radius) \div (ref - 1))]

\* C5: for an accepted step count of 3 or more, _step yields exactly refCount
\* positions radius, radius + s, radius + 2s, ...
C5_StepYieldsRefCountPositions ==
    pc = "scan" =>
        /\ Val(params.refnx) >= 3 =>
              xs = EvenlySpaced(WIDTH, Val(params.refnx), Chip \div 2)
        /\ Val(params.refny) >= 3 =>
              ys = EvenlySpaced(FILE_LENGTH, Val(params.refny), Chip \div 2)

\* C7: with accepted parameters and no pinned pixel, RefPixelError is raised
\* exactly when no candidate is valid in every interferogram; otherwise one of
\* the valid candidates is returned and nothing is raised.
C7_ErrorIffNoValidCandidate ==
    Searched =>
        /\ (error = "RefPixelError") <=> (ValidCands = {})
        /\ ValidCands # {} =>
              /\ error = "none"
              /\ \E c \in ValidCands : <<refy, refx>> = <<CandY(c), CandX(c)>>

\* the search failed although every candidate is valid in some interferogram
C7_Witness ==
    /\ Searched /\ error = "RefPixelError"
    /\ Cardinality(Candidates) > 1
    /\ \A c \in Candidates :
          \E i \in Ifgs :
              2 * Cardinality(NotNan(i, CandY(c), CandX(c), Chip \div 2))
                  > Val(params.ref_min_frac2) * Chip * Chip

\* the parameter rules of the search: all present, chip size odd, >= 3 and
\* <= width, fraction in [0, 1], step counts in [1, dimension - (chipsize - 1)]
ParamsAcceptable ==
    /\ params.ref_chip_size # None /\ params.ref_min_frac2 # None
    /\ params.refnx # None /\ params.refny # None
    /\ Chip >= 3 /\ Chip <= WIDTH /\ Chip % 2 = 1
    /\ Val(params.ref_min_frac2) \in 0..2
    /\ Val(params.refnx) \in 1..(WIDTH - (Chip - 1))
    /\ Val(params.refny) \in 1..(FILE_LENGTH - (Chip - 1))

\* C8: with no pinned pixel, a missing or out-of-range search parameter makes
\* ref_pixel fail before any window is examined, and a missing ref_chip_size is
\* reported as the configuration error naming that key.
C8_ValidationBeforeScan ==
    (~Pinned(params) /\ ~ParamsAcceptable) =>
        /\ examined = 0 /\ pc # "scan" /\ phase_stack = <<>>
        /\ pc = "done" =>
              /\ error \in {"ValueError", "ConfigException:ref_chip_size",
                             "ConfigException:ref_min_frac",
                             "ConfigException:refnx", "ConfigException:refny"}
              /\ params.ref_chip_size = None =>
                    error = "ConfigException:ref_chip_size"

\* ref_chip_size is absent and ref_min_frac is out of range
C8_Witness ==
    /\ pc = "done" /\ ~Pinned(params)
    /\ params.ref_chip_size = None
    /\ params.ref_min_frac2 = <<3>>
    /\ error = "ConfigException:ref_chip_size"

\* C9: every candidate centre lies at least radius cells inside the grid, so
\* its window has chipsize * chipsize cells.
C9_WindowsInsideGrid ==
    pc = "scan" =>
        \A c \in Candidates :
            /\ Chip \div 2 <= CandY(c) /\ CandY(c) <= FILE_LENGTH - Chip \div 2 - 1
            /\ Chip \div 2 <= CandX(c) /\ CandX(c) <= WIDTH - Chip \div 2 - 1
            /\ Cardinality(Window(CandY(c), CandX(c), Chip \div 2)) = Chip * Chip

\* --------------------------------- the per-pixel step run by two workers
\* Each worker takes pixels with some, not all, interferograms missing and runs
\* lines 203-211 on them: the toggle loop, then the MST read. "interleaved": one
\* shared graph, the loops and reads of the two workers in any order; "atomic":
\* one shared graph, loop and read of a pixel in one step; "clones": a graph per
\* worker, each seeded with every edge.
Workers == {1, 2}

GraphOf(w) == IF mode = "clones" THEN w ELSE 1

PartialMasks ==
    {vals \in [1..Len(edges) -> BOOLEAN] :
        NanCount(vals) # 0 /\ NanCount(vals) # Len(edges)}

\* whose mask the graph gr holds when the worker of pixel vals reads it
ReadOf(gr, vals) ==
    IF DOMAIN gr = {edges[i] : i \in {j \in DOMAIN edges : ~vals[j]}}
    THEN "own" ELSE "other"

WorkersInit ==
    /\ mode \in {"interleaved", "atomic", "clones"}
    /\ edges \in {es \in EdgeLists : Len(es) >= 2}
    /\ weights = [i \in 1..Len(edges) |-> 1]
    /\ graphs = IF mode = "clones"
                THEN <<FullGraph(Len(edges)), FullGraph(Len(edges))>>
                ELSE <<FullGraph(Len(edges))>>
    /\ wvalues = [w \in Workers |-> None]
    /\ lastRead = "none"
    \* mst_matrix itself is not run
    /\ g = <<>> /\ default_mst = <<>>
    /\ mpc = "off" /\ values = <<>> /\ branch = "none"
    /\ raw = <<>> /\ mst_result = <<>> /\ calls = 0 /\ inserted = 0
    \* ref_pixel is not run
    /\ WIDTH = 0 /\ FILE_LENGTH = 0 /\ params = <<>> /\ phase_stack = <<>>
    /\ pc = "off" /\ ys = <<>> /\ xs = <<>> /\ iy = 1 /\ ix = 1
    /\ min_sd = Inf /\ refy = 0 /\ refx = 0 /\ error = "none" /\ examined = 0

\* lines 203-209 by worker w, on its graph
WorkerToggle(w) ==
    /\ mode \in {"interleaved", "clones"}
    /\ wvalues[w] = None
    /\ \E vals \in PartialMasks :
          /\ graphs' = [graphs EXCEPT ![GraphOf(w)] = Toggle(@, vals, 1)]
          /\ wvalues' = [wvalues EXCEPT ![w] = vals]
    /\ UNCHANGED <<mode, lastRead>>
    /\ UNCHANGED <<refVars, mstVars>>

\* line 211 by worker w, on its graph
WorkerRead(w) ==
    /\ mode \in {"interleaved", "clones"}
    /\ wvalues[w] # None
    /\ lastRead' = ReadOf(graphs[GraphOf(w)], wvalues[w])
    /\ wvalues' = [wvalues EXCEPT ![w] = None]
    /\ UNCHANGED <<mode, graphs>>
    /\ UNCHANGED <<refVars, mstVars>>

\* lines 203-211 by worker w in one step
WorkerAtomic(w) ==
    /\ mode = "atomic"
    /\ \E vals \in PartialMasks :
          /\ graphs' = [graphs EXCEPT ![1] = Toggle(@, vals, 1)]
          /\ lastRead' = ReadOf(Toggle(graphs[1], vals, 1), vals)
    /\ UNCHANGED <<mode, wvalues>>
    /\ UNCHANGED <<refVars, mstVars>>

WorkersNext ==
    \E w \in Workers : WorkerToggle(w) \/ WorkerRead(w) \/ WorkerAtomic(w)

SpecWorkers == WorkersInit /\ [][WorkersNext]_vars

\* C10: with the toggle loops and MST reads of two workers interleaved on one
\* shared graph, a read can see another pixel's edges (the witness); with loop
\* and read atomic, or a graph per worker, every read sees the edges of the
\* worker's own pixel.
C10_AtomicOrClonedReadsOwnMask ==
    mode \in {"atomic", "clones"} => lastRead # "other"

\* interleaved on one graph, a worker read the graph while it held the edges of
\* the other worker's pixel
C10_Witness ==
    /\ mode = "interleaved"
    /\ lastRead = "other"

\* ------------------------------------------------ claims on mst_matrix
AllEdges == {edges[i] : i \in DOMAIN edges}

\* the edges of the interferograms that are not NaN at the pixel
ValidEdges(vals) == {edges[i] : i \in {j \in DOMAIN edges : ~vals[j]}}

EdgeWeight(e) == weights[CHOOSE i \in DOMAIN edges : edges[i] = e]

RECURSIVE TotalWeight(_)
TotalWeight(F) ==
    IF F = {} THEN 0
    ELSE LET e == CHOOSE f \in F : TRUE
         IN EdgeWeight(e) + TotalWeight(F \ {e})

\* the edges node - parent of a tree without its root entries
TreeEdges(t) ==
    {e \in Pairs : \E k \in DOMAIN t : t[k] # None /\ Joins(e, k, t[k][1])}

\* the nodes joined to those of S by edges of F
RECURSIVE Reach(_, _)
Reach(F, S) ==
    LET T == S \cup {n \in Epochs : \E m \in S, e \in F : Joins(e, m, n)}
    IN IF T = S THEN S ELSE Reach(F, T)

Components(N, F) == {Reach(F, {n}) : n \in N}

SpanningTrees(N, V) ==
    {F \in SUBSET V : Cardinality(Components(N, F)) = 1
                      /\ Cardinality(F) = Cardinality(N) - 1}

\* the forests of V that join whatever V joins
SpanningForests(N, V) ==
    {F \in SUBSET V : Components(N, F) = Components(N, V)
                      /\ Cardinality(F) = Cardinality(N)
                                              - Cardinality(Components(N, V))}

C2_GraphIsPixelsMask ==
    branch = "mst" =>
        /\ DOMAIN g = ValidEdges(values)
        /\ \A e \in DOMAIN g : g[e] = EdgeWeight(e)

\* a pixel whose step put back an edge that an earlier pixel had taken out
C2_Witness ==
    /\ branch = "mst"
    /\ inserted > 0
    /\ DOMAIN g = ValidEdges(values)
    /\ DOMAIN g # AllEdges

\* C3: a pixel with no interferogram missing is given the cached default tree,
\* which is the minimum spanning tree (roots removed) of the graph of every
\* edge; the step changes no edge of the graph and computes no tree.
C3_DefaultTreeReused ==
    /\ [](branch = "default" =>
            /\ mst_result = default_mst
            /\ mst_result = _remove_root_node(
                   minimal_spanning_tree(Nodes(edges), FullGraph(Len(edges))))
            /\ TreeEdges(mst_result) \in SpanningForests(Nodes(edges), AllEdges)
            /\ \A T \in SpanningForests(Nodes(edges), AllEdges) :
                  TotalWeight(TreeEdges(mst_result)) <= TotalWeight(T)
            /\ calls = 0 /\ inserted = 0)
    /\ [][(mpc = "loop" /\ branch' = "default") =>
            (g' = g /\ default_mst' = default_mst)]_vars

\* a pixel with nothing missing, reached while the graph lacks some edge
C3_Witness ==
    /\ branch = "default"
    /\ NanCount(values) = 0
    /\ DOMAIN g # AllEdges
    /\ mst_result = default_mst

\* the raw result and what _remove_root_node left of it, after the last step
Stripped == IF branch = "setup" THEN default_mst ELSE mst_result
Removed == Cardinality(DOMAIN raw) - Cardinality(DOMAIN Stripped)
KeepsParents ==
    \A k \in DOMAIN raw :
        raw[k] # None => k \in DOMAIN Stripped /\ Stripped[k] = raw[k]

\* C6 as stated: _remove_root_node takes exactly one entry from every raw result
\* mst_matrix passes to it, and leaves every entry with a parent as it was.
C6_RemovesExactlyOne ==
    branch \in {"setup", "mst"} => (Removed = 1 /\ KeepsParents)

\* C6 amended: _remove_root_node takes out the entries without a parent, one for
\* each connected part of the graph the tree was computed on (exactly one when
\* its edges connect all epochs), and leaves every entry with a parent as it was.
C6_RemovesOnePerComponent ==
    branch \in {"setup", "mst"} =>
        /\ Removed = Cardinality(Components(Nodes(edges), DOMAIN g))
        /\ Removed >= 1
        /\ KeepsParents
        /\ \A k \in DOMAIN Stripped : Stripped[k] # None

\* a pixel whose valid edges leave an epoch on its own: two entries are removed
C6_Witness ==
    /\ branch = "mst"
    /\ Removed = 2
    /\ Cardinality(DOMAIN mst_result) = 1

====
